---- MODULE Spec2Model ----
(***************************************************************************)
(* ntex web::App: the application builder (src/ntex/src/web/app.rs), the   *)
(* factory it freezes into, the service a worker constructs from it and    *)
(* the path of one request through that service: middleware stack, filter  *)
(* pipeline, router, resource, handler and back.                           *)
(***************************************************************************)
EXTENDS Integers, Sequences, FiniteSets, TLC

\* ------------------------------------------------------------------ bounds

\* The number of builder calls made on one App before it is frozen.
MaxCalls == 3

\* The number of workers constructing a service from one factory.
MaxWorkers == 2

\* ------------------------------------------------------------- basic values

None == "None"

\* ASCII letters that have an upper and a lower case form in the paths used.
UpperChars == <<"B", "T", "U">>
LowerChars == <<"b", "t", "u">>

\* u8::to_ascii_lowercase on one character.
to_ascii_lowercase(c) ==
    IF \E i \in 1..Len(UpperChars) : UpperChars[i] = c
    THEN LowerChars[CHOOSE i \in 1..Len(UpperChars) : UpperChars[i] = c]
    ELSE c

\* A path segment is a sequence of characters; lower-casing maps over it.
LowerSeg(seg) == [i \in 1..Len(seg) |-> to_ascii_lowercase(seg[i])]

\* Request paths, as sequences of segments.
PathTest == << <<"t", "e", "s", "t">> >>
PathTestUpper == << <<"T", "e", "s", "t">> >>
PathTest2 == << <<"t", "e", "s", "t", "2">> >>
PathBlah == << <<"b", "l", "a", "h">> >>
PathRoot == <<>>
PathUserBob == << <<"u">>, <<"B", "o", "b">> >>
PathUserBobUpper == << <<"U">>, <<"B", "o", "b">> >>

\* Path patterns: static segments and named dynamic segments.
Static(seg) == [kind |-> "static", text |-> seg, name |-> None]
Dynamic(n) == [kind |-> "dynamic", text |-> <<>>, name |-> n]

PatTest == << Static(<<"t", "e", "s", "t">>) >>
PatTest2 == << Static(<<"t", "e", "s", "t", "2">>) >>
PatRoot == <<>>
PatUser == << Static(<<"u">>), Dynamic("name") >>
\* "https://youtube.com/watch/{video_id}", split at every "/"
PatYoutube ==
    << Static(<<"https:">>), Static(<<>>), Static(<<"youtube.com">>),
       Static(<<"watch">>), Dynamic("video_id") >>

\* One segment of a pattern against one segment of a path.  Only a static
\* segment is compared without case when the router is case insensitive.
SegMatches(p, seg, insensitive) ==
    IF p.kind = "dynamic" THEN Len(seg) > 0
    ELSE IF insensitive THEN LowerSeg(p.text) = LowerSeg(seg)
    ELSE p.text = seg

\* ResourceDef against a request path.
PatternMatches(pat, path, insensitive) ==
    /\ Len(pat) = Len(path)
    /\ \A i \in 1..Len(pat) : SegMatches(pat[i], path[i], insensitive)

\* The values the dynamic segments capture: the path's own text.
Captured(pat, path) ==
    [i \in {j \in 1..Len(pat) : pat[j].kind = "dynamic"} |-> path[i]]

NoParams == [i \in {} |-> <<>>]

\* ----------------------------------------------------- handlers and routes

\* Types of application data.
DataOf(T) == IF T = "usize" THEN "Data<usize>" ELSE "Data<u32>"

\* req.url_for(name, elements) as a handler asks for it.
UrlFor(name, elements) == [name |-> name, elements |-> elements]
NoUrlFor == UrlFor(None, <<>>)

\* A handler: what it answers, the Data<T> it extracts, if any, the URL it
\* asks the request to generate, if any, and the type it looks up with
\* req.app_data::<U>(), if any.
Handler(id, status, extract) ==
    [id |-> id, status |-> status, extract |-> extract, url_for |-> NoUrlFor,
     lookup |-> None]

HOk == Handler("ok", "OK", None)
HOk2 == Handler("ok2", "OK", None)
HUser == Handler("user", "OK", None)
HAccepted == Handler("accepted", "ACCEPTED", None)
HUsize == Handler("usize", "OK", "usize")
HU32 == Handler("u32", "OK", "u32")
\* |req: HttpRequest| req.url_for("youtube", &["12345"]), answered in the body
HUrl == [Handler("url", "OK", None) EXCEPT
           !.url_for = UrlFor("youtube", << <<"12345">> >>)]

\* |req: HttpRequest| req.app_data::<usize>(), and the same for u32
HLookup == [Handler("lookup", "OK", None) EXCEPT !.lookup = "usize"]
HLookupU32 == [Handler("lookup_u32", "OK", None) EXCEPT !.lookup = "u32"]

\* web::get().to(h), web::post().to(h), web::route().to(h) / Resource::to(h)
Route(guards, h) == [guards |-> guards, handler |-> h]
get(h) == Route({"GET"}, h)
post(h) == Route({"POST"}, h)
to(h) == Route({}, h)

\* A service used as a default: it answers with a fixed status.
DefaultSvc(id, status) == [id |-> id, status |-> status]
ResourceDefault == DefaultSvc("resource_default", "CREATED")
AppDefault == DefaultSvc("app_default", "METHOD_NOT_ALLOWED")
AppDefault2 == DefaultSvc("app_default2", "GONE")
NoDefault == DefaultSvc(None, None)

\* web::resource(path) with its guards, routes and own default service.
Resource(pat, guards, routes, dflt) ==
    [rdef |-> pat, guards |-> guards, routes |-> routes, default |-> dflt]

\* web::resource("/test").to(|| HttpResponse::Ok())
ResTest == Resource(PatTest, {}, <<to(HOk)>>, NoDefault)
\* web::resource("/test2").default_service(Created).route(web::get().to(Ok))
ResTest2 == Resource(PatTest2, {}, <<get(HOk)>>, ResourceDefault)
\* web::resource("/test").to(...) registered a second time with another handler
ResTestAgain == Resource(PatTest, {}, <<to(HOk2)>>, NoDefault)
\* web::resource("/u/{name}").to(...)
ResUser == Resource(PatUser, {}, <<to(HUser)>>, NoDefault)
\* web::resource("/").to(|_: Data<usize>| HttpResponse::Ok())
ResUsize == Resource(PatRoot, {}, <<to(HUsize)>>, NoDefault)

\* web::resource("/test2").to(|_: Data<u32>| HttpResponse::Ok())
ResU32 == Resource(PatTest2, {}, <<to(HU32)>>, NoDefault)
\* web::resource("/").to(|req: HttpRequest| .. req.app_data::<usize>() ..)
ResLookup == Resource(PatRoot, {}, <<to(HLookup)>>, NoDefault)
ResLookupU32 == Resource(PatTest2, {}, <<to(HLookupU32)>>, NoDefault)
\* web::resource("/test").to(|req: HttpRequest| .. req.url_for("youtube", ..))
ResUrl == Resource(PatTest, {}, <<to(HUrl)>>, NoDefault)

\* ------------------------------------------------ middleware and filters

\* service::Identity, one user transform, and Stack { inner, outer }.
Identity == [kind |-> "Identity"]
Transform(id) == [kind |-> "Transform", id |-> id]
\* Stack::new with inner and outer exchanged.
Stack_exchanged(inner, outer) == [kind |-> "Stack", inner |-> outer, outer |-> inner]

\* Stack::new
Stack(inner, outer) == [kind |-> "Stack", inner |-> inner, outer |-> outer]

\* The transforms whose service returns an error instead of calling the
\* service it wraps.
Rejecting == {"E"}

\* A composed service is the sequence of its middleware layers, outermost
\* first, around the AppService at its core (the empty sequence).
AppServiceCore == <<>>

\* Stack::new_transform: outer.new_transform(inner.new_transform(service)).
RECURSIVE new_transform(_, _)
new_transform(m, service) ==
    IF m.kind = "Identity" THEN service
    ELSE IF m.kind = "Transform" THEN <<m.id>> \o service
    ELSE new_transform(m.outer, new_transform(m.inner, service))

\* A filter step: Filter (the identity), a step that marks the request and
\* forwards it, and a step that answers instead of forwarding.
FilterStep(id, act) == [id |-> id, act |-> act]
Filter == FilterStep("Filter", "pass")
FilterTag == FilterStep("tag", "tag")
FilterTag2 == FilterStep("tag2", "tag")
FilterDeny == FilterStep("deny", "respond")

\* ----------------------------------------------------- application data

\* Extensions: a map from a type to the one value stored under it.
NoExtensions == [k \in {} |-> 0]
Insert(ext, k, v) == [x \in (DOMAIN ext) \cup {k} |-> IF x = k THEN v ELSE ext[x]]

\* An entry of App.data: Data::new(value) of type ty.
DataEntry(ty, val) == [ty |-> ty, val |-> val]
\* An entry of App.data_factories: what the future resolves to.
FactoryOk(ty, val) == [ty |-> ty, ok |-> TRUE, val |-> val]
FactoryErr(ty) == [ty |-> ty, ok |-> FALSE, val |-> 0]

\* ServiceConfig as filled in by a configure closure.
Config(d, s, e) == [data |-> d, services |-> s, external |-> e]
ExternalDef(name, pat) == [name |-> name, rdef |-> pat]
Youtube == ExternalDef("youtube", PatYoutube)
\* an external resource whose pattern is the path of a request
ExternalTest2 == ExternalDef("test2", PatTest2)

\* ------------------------------------------------------------------ state

VARIABLES
    app,        \* the App builder: its ten fields
    factory,    \* the AppFactory into_factory produced, or NoFactory
    srv,        \* the service a worker constructed, or NoService
    log,        \* what log::error! has written
    polled,     \* the service reported ready and no call was made since
    busy,       \* the components that are not ready now
    stacked,    \* transforms, a service, and what stacking them gave
    built,      \* every service constructed from the factory, with the
                \* data factories its construction invoked
    pc,         \* build, factory, ready, middleware, filter, routing, outbound
    req,        \* the request in flight
    pos,        \* the layer, filter step or resource the request is at
    rstate,     \* the routing decision of the request in flight
    resp,       \* the response produced for it
    trace,      \* who observed the request in flight, in order
    history     \* the builder calls made, in order

vars ==
    <<app, factory, srv, log, built, stacked, polled, busy, pc, req, pos, rstate, resp, trace, history>>

\* The outcome of url_for: the generated URL or the error.
Generated(url) == [asked |-> TRUE, ok |-> TRUE, url |-> url, err |-> None]
UrlGenerationError(e) == [asked |-> TRUE, ok |-> FALSE, url |-> <<>>, err |-> e]
NoUrl == [asked |-> FALSE, ok |-> FALSE, url |-> <<>>, err |-> None]

\* Three transforms a, b, c and a service, before anything was stacked.
Stacked(a, b, c, service) ==
    [a |-> a, b |-> b, c |-> c, service |-> service, done |-> FALSE,
     ab_c |-> <<>>, a_bc |-> <<>>, ab |-> <<>>, ba |-> <<>>,
     id_a |-> <<>>, a_id |-> <<>>, a_alone |-> <<>>, id_alone |-> <<>>]
NoStacked == Stacked(Identity, Identity, Identity, AppServiceCore)

NoFactory == [made |-> FALSE]
NoService == [made |-> FALSE]
NoRequest == [path |-> <<>>, method |-> None, marks |-> <<>>]
NoResponse ==
    [status |-> None, by |-> None, headers |-> <<>>, params |-> NoParams,
     seen |-> <<>>, resource |-> 0, marks |-> <<>>, handled |-> FALSE,
     url |-> NoUrl, channel |-> None, found |-> <<>>]

\* App::new()
AppNew ==
    [middleware |-> Identity,
     filter |-> <<Filter>>,
     data |-> <<>>,
     data_factories |-> <<>>,
     services |-> <<>>,
     default |-> NoDefault,
     external |-> <<>>,
     extensions |-> NoExtensions,
     error_renderer |-> "DefaultError",
     case_insensitive |-> FALSE]

Init ==
    /\ app = AppNew
    /\ factory = NoFactory
    /\ srv = NoService
    /\ log = <<>>
    /\ built = <<>>
    /\ stacked = NoStacked
    /\ polled = FALSE
    /\ busy = {}
    /\ pc = "build"
    /\ req = NoRequest
    /\ pos = 0
    /\ rstate = "Start"
    /\ resp = NoResponse
    /\ trace = <<>>
    /\ history = <<>>

\* --------------------------------------------------------------- builder

\* A builder method is called on an App that is not frozen yet.
Building == pc = "build" /\ Len(history) < MaxCalls

Called(op, arg) ==
    /\ history' = Append(history, [op |-> op, arg |-> arg])
    /\ UNCHANGED <<factory, srv, log, built, stacked, polled, busy, pc, req, pos, rstate, resp, trace>>

\* App::data
data(U, value) ==
    /\ Building
    /\ app' = [app EXCEPT !.data = Append(@, DataEntry(U, value))]
    /\ Called("data", DataEntry(U, value))

\* data_factory that does not keep the factory.
data_factory_unpushed(f) ==
    /\ Building
    /\ app' = app
    /\ Called("data_factory", f)

\* data_factory that keeps the factory twice.
data_factory_twice(f) ==
    /\ Building
    /\ app' = [app EXCEPT !.data_factories = @ \o <<f, f>>]
    /\ Called("data_factory", f)

\* App::data_factory
data_factory(f) ==
    /\ Building
    /\ app' = [app EXCEPT !.data_factories = Append(@, f)]
    /\ Called("data_factory", f)

\* app_data that does not keep the value.
app_data_dropped(U, ext) ==
    /\ Building
    /\ app' = app
    /\ Called("app_data", DataEntry(U, ext))

\* App::app_data
app_data(U, ext) ==
    /\ Building
    /\ app' = [app EXCEPT !.extensions = Insert(@, U, ext)]
    /\ Called("app_data", DataEntry(U, ext))

\* configure with the closure's services put before those registered so far.
configure_services_first(cfg) ==
    /\ Building
    /\ app' = [app EXCEPT !.data = @ \o cfg.data,
                          !.services = cfg.services \o @,
                          !.external = @ \o cfg.external]
    /\ Called("configure", cfg)

\* App::configure
configure(cfg) ==
    /\ Building
    /\ app' = [app EXCEPT !.data = @ \o cfg.data,
                          !.services = @ \o cfg.services,
                          !.external = @ \o cfg.external]
    /\ Called("configure", cfg)

\* service that puts the new service in front of those registered so far.
service_in_front(f) ==
    /\ Building
    /\ app' = [app EXCEPT !.services = <<f>> \o @]
    /\ Called("service", f)

\* App::service
service(f) ==
    /\ Building
    /\ app' = [app EXCEPT !.services = Append(@, f)]
    /\ Called("service", f)

\* The resource with the guards left on the route.
RouteResource_keeps_guards(path, r) == Resource(path, {}, <<r>>, NoDefault)

\* Resource::new(path).add_guards(route.take_guards()).route(route)
RouteResource(path, r) ==
    Resource(path, r.guards, <<[r EXCEPT !.guards = {}]>>, NoDefault)

\* App::route: self.service(..) with a resource of its own, holding the
\* route and carrying its guards.
route(path, r) ==
    /\ Building
    /\ app' = [app EXCEPT !.services = Append(@, RouteResource(path, r))]
    /\ Called("route", [path |-> path, route |-> r])

\* default_service that keeps a default that is already set.
default_service_keeps_first(f) ==
    /\ Building
    /\ app' = [app EXCEPT !.default = IF @ = NoDefault THEN f ELSE @]
    /\ Called("default_service", f)

\* default_service that leaves App.default as it was.
default_service_dropped(f) ==
    /\ Building
    /\ app' = app
    /\ Called("default_service", f)

\* default_service that also replaces the default of every resource
\* registered so far.
default_service_everywhere(f) ==
    /\ Building
    /\ app' = [app EXCEPT !.default = f,
                          !.services = [i \in 1..Len(@) |-> [@[i] EXCEPT !.default = f]]]
    /\ Called("default_service", f)

\* App::default_service
default_service(f) ==
    /\ Building
    /\ app' = [app EXCEPT !.default = f]
    /\ Called("default_service", f)

\* external_resource that leaves the resource definition without its name.
external_resource_unnamed(name, url) ==
    /\ Building
    /\ app' = [app EXCEPT !.external = Append(@, ExternalDef("", url))]
    /\ Called("external_resource", ExternalDef(name, url))

\* external_resource that registers the pattern as a resource as well.
external_resource_as_service(name, url) ==
    /\ Building
    /\ app' = [app EXCEPT !.external = Append(@, ExternalDef(name, url)),
                          !.services = Append(@, Resource(url, {}, <<>>, NoDefault))]
    /\ Called("external_resource", ExternalDef(name, url))

\* App::external_resource
external_resource(name, url) ==
    /\ Building
    /\ app' = [app EXCEPT !.external = Append(@, ExternalDef(name, url))]
    /\ Called("external_resource", ExternalDef(name, url))

\* filter with the new step composed in front of the pipeline.
filter_in_front(f) ==
    /\ Building
    /\ app' = [app EXCEPT !.filter = <<f>> \o @]
    /\ Called("filter", f)

\* filter that composes the new step with the identity filter only.
filter_replaces(f) ==
    /\ Building
    /\ app' = [app EXCEPT !.filter = <<Filter, f>>]
    /\ Called("filter", f)

\* App::filter
filter(f) ==
    /\ Building
    /\ app' = [app EXCEPT !.filter = Append(@, f)]
    /\ Called("filter", f)

\* wrap with inner and outer exchanged.
wrap_inside(mw) ==
    /\ Building
    /\ app' = [app EXCEPT !.middleware = Stack(mw, @)]
    /\ Called("wrap", mw)

\* wrap that rebuilds the App with the case-insensitive flag of a new App.
wrap_resets_flag(mw) ==
    /\ Building
    /\ app' = [app EXCEPT !.middleware = Stack(@, mw), !.case_insensitive = FALSE]
    /\ Called("wrap", mw)

\* wrap that rebuilds the App without the services registered so far.
wrap_forgets_services(mw) ==
    /\ Building
    /\ app' = [app EXCEPT !.middleware = Stack(@, mw), !.services = <<>>]
    /\ Called("wrap", mw)

\* App::wrap
wrap(mw) ==
    /\ Building
    /\ app' = [app EXCEPT !.middleware = Stack(@, mw)]
    /\ Called("wrap", mw)

\* case_insensitive_routing that does not set the flag.
case_insensitive_routing_unset ==
    /\ Building
    /\ app' = [app EXCEPT !.case_insensitive = FALSE]
    /\ Called("case_insensitive_routing", TRUE)

\* App::case_insensitive_routing
case_insensitive_routing ==
    /\ Building
    /\ app' = [app EXCEPT !.case_insensitive = TRUE]
    /\ Called("case_insensitive_routing", TRUE)

\* Option<Extensions>: Some(value), and what Option::take leaves behind.
Some(x) == [some |-> TRUE, value |-> x]
Taken == [some |-> FALSE, value |-> NoExtensions]

\* IntoServiceFactory::into_factory.  data and data_factories are shared
\* (Rc), services and external sit in a RefCell, and the extensions in a
\* RefCell<Option<..>> the factory can take them out of.
into_factory ==
    /\ pc = "build"
    /\ factory' =
         [made |-> TRUE,
          filter |-> app.filter,
          middleware |-> app.middleware,
          data |-> app.data,
          data_factories |-> app.data_factories,
          services |-> app.services,
          external |-> app.external,
          default |-> app.default,
          extensions |-> Some(app.extensions),
          case_insensitive |-> app.case_insensitive]
    /\ pc' = "factory"
    /\ UNCHANGED <<app, srv, log, built, stacked, polled, busy, req, pos, rstate, resp, trace, history>>

\* ------------------------------------------------ constructing a service

\* DataFactory::create for Data<T>: the entry is stored under Data<T>.
Create(d, ext) == Insert(ext, DataOf(d.ty), d.val)

RECURSIVE CreateAll(_, _)
CreateAll(ds, ext) ==
    IF ds = <<>> THEN ext ELSE CreateAll(Tail(ds), Create(Head(ds), ext))

\* The closure answering with an entry although the future failed.
RunFactory_keeps_failed(f) ==
    [ok |-> TRUE, data |-> DataEntry(f.ty, f.val),
     logged |-> IF f.ok THEN <<>>
                ELSE <<[level |-> "error", msg |-> "Cannot construct data instance",
                        ty |-> f.ty]>>]

\* The closure data_factory pushes: it awaits the user's future, logs an
\* error and answers Err(()) when it failed, boxes Data::new(data) otherwise.
RunFactory(f) ==
    IF f.ok
    THEN [ok |-> TRUE, data |-> DataEntry(f.ty, f.val), logged |-> <<>>]
    ELSE [ok |-> FALSE, data |-> DataEntry(f.ty, 0),
          logged |-> <<[level |-> "error", msg |-> "Cannot construct data instance",
                        ty |-> f.ty]>>]

\* Every factory is awaited in turn; one that failed adds no entry.
RECURSIVE ResolveFactories(_, _)
ResolveFactories(fs, ext) ==
    IF fs = <<>> THEN ext
    ELSE LET r == RunFactory(Head(fs))
         IN ResolveFactories(Tail(fs), IF r.ok THEN Create(r.data, ext) ELSE ext)

RECURSIVE FactoryLog(_)
FactoryLog(fs) ==
    IF fs = <<>> THEN <<>> ELSE RunFactory(Head(fs)).logged \o FactoryLog(Tail(fs))

\* The answer of an application without a default service.
NotFound == DefaultSvc("not_found", "NOT_FOUND")

\* Option::take on the extensions the factory holds: the value the first
\* time, and an empty container once they were taken.
TakeExtensions(o) == IF o.some THEN o.value ELSE NoExtensions

\* AppFactory::new_service: one worker's service.  The middleware stack is
\* applied to the AppService, which holds the filter pipeline and the router.
\* The eager data is created first, then every data factory is awaited.
Construct ==
    /\ srv' =
         [made |-> TRUE,
          layers |-> new_transform(factory.middleware, AppServiceCore),
          filter |-> factory.filter,
          router |-> factory.services,
          default |-> IF factory.default = NoDefault THEN NotFound ELSE factory.default,
          rmap |-> factory.external,
          data |-> ResolveFactories(factory.data_factories,
                                    CreateAll(factory.data,
                                              TakeExtensions(factory.extensions))),
          case_insensitive |-> factory.case_insensitive]
    /\ factory' = [factory EXCEPT !.extensions = Taken]
    /\ built' = Append(built, [service |-> srv', awaited |-> factory.data_factories])
    /\ log' = log \o FactoryLog(factory.data_factories)
    /\ pc' = "ready"
    /\ polled' = FALSE
    /\ UNCHANGED <<app, busy, stacked, req, pos, rstate, resp, trace, history>>

\* The first worker constructs its service from the frozen factory.
new_service ==
    /\ pc = "factory"
    /\ Construct

\* A further worker constructs its own service from the same factory; the
\* requests that follow are sent to that worker.
worker_new_service ==
    /\ pc = "ready"
    /\ Len(built) < MaxWorkers
    /\ Construct

\* ------------------------------------------------------------ one request

Event(kind, id, dir) == [kind |-> kind, id |-> id, dir |-> dir]

\* A resource matches when its pattern and all its guards match.
GuardsMatch(guards, r) == \A g \in guards : g = r.method
ResourceMatches(res, r, insensitive) ==
    /\ PatternMatches(res.rdef, r.path, insensitive)
    /\ GuardsMatch(res.guards, r)

\* Ok(WebResponse): a response.
Response(status, by, r) ==
    [NoResponse EXCEPT !.status = status, !.by = by, !.marks = r.marks,
                       !.channel = "Ok"]

\* Err(Err::Container): an error value, with the status it would render to.
Failure(status, by, r) == [Response(status, by, r) EXCEPT !.channel = "Err"]

\* The segments of a pattern with the elements put, in order, in the place
\* of its dynamic segments; a dynamic segment left without element is kept
\* as a pattern segment.
RECURSIVE Substitute(_, _)
Substitute(pat, elements) ==
    IF pat = <<>> THEN <<>>
    ELSE IF Head(pat).kind = "static"
    THEN <<Head(pat).text>> \o Substitute(Tail(pat), elements)
    ELSE IF elements = <<>> THEN <<Head(pat)>> \o Substitute(Tail(pat), elements)
    ELSE <<Head(elements)>> \o Substitute(Tail(pat), Tail(elements))

\* The segments written as one string, "/" between them.
RECURSIVE JoinSegments(_)
JoinSegments(segs) ==
    IF segs = <<>> THEN <<>>
    ELSE IF Len(segs) = 1 THEN Head(segs)
    ELSE Head(segs) \o <<"/">> \o JoinSegments(Tail(segs))

\* HttpRequest::url_for over the resource map of the service.
url_for(rmap, name, elements) ==
    LET named == {i \in 1..Len(rmap) : rmap[i].name = name}
    IN IF named = {} THEN UrlGenerationError("ResourceNotFound")
       ELSE LET pat == rmap[CHOOSE i \in named : \A j \in named : i <= j].rdef
                dynamic == {i \in 1..Len(pat) : pat[i].kind = "dynamic"}
            IN IF Cardinality(dynamic) > Len(elements)
               THEN UrlGenerationError("NotEnoughElements")
               ELSE Generated(JoinSegments(Substitute(pat, elements)))

\* A handler that extracts Data<T>: without an entry of that type the
\* extraction fails and the handler does not run.  A handler that asks for
\* a URL answers with what url_for returned.
HandlerCall(h, r, store, rmap) ==
    IF h.extract # None /\ DataOf(h.extract) \notin DOMAIN store
    THEN Response("INTERNAL_SERVER_ERROR", "missing_app_data", r)
    ELSE [Response(h.status, h.id, r) EXCEPT
            !.handled = TRUE,
            !.seen = IF h.extract = None THEN <<>> ELSE <<store[DataOf(h.extract)]>>,
            !.url = IF h.url_for = NoUrlFor THEN NoUrl
                    ELSE url_for(rmap, h.url_for.name, h.url_for.elements),
            !.found = IF h.lookup # None /\ h.lookup \in DOMAIN store
                      THEN <<store[h.lookup]>> ELSE <<>>]

\* A matched resource: its first route whose guards match, else its own
\* default service, else method not allowed.
ResourceCall(res, r, store, rmap) ==
    LET fit == {i \in 1..Len(res.routes) : GuardsMatch(res.routes[i].guards, r)}
    IN IF fit # {}
       THEN HandlerCall(res.routes[CHOOSE i \in fit : \A j \in fit : i <= j].handler,
                        r, store, rmap)
       ELSE IF res.default # NoDefault
       THEN Response(res.default.status, res.default.id, r)
       ELSE Response("METHOD_NOT_ALLOWED", "resource", r)

\* Where a response goes: out through the middleware layers, innermost
\* first, or straight back when there is none.
AnswerFrom(r, events, outer) ==
    /\ resp' = r
    /\ trace' = trace \o events
    /\ IF outer > 0
       THEN pc' = "outbound" /\ pos' = outer
       ELSE pc' = "ready" /\ pos' = 0

Answer(r, events) == AnswerFrom(r, events, Len(srv.layers))

\* The filter pipeline put in front of the middleware stack.
StageAfter_filters_first(stage) ==
    IF stage = "call" THEN "filter"
    ELSE IF stage = "filter"
    THEN IF Len(srv.layers) > 0 THEN "middleware" ELSE "routing"
    ELSE "routing"

\* The order of the stages: M is a Transform of AppService<F::Service>, so
\* the middleware layers are outside the AppService, and the AppService
\* runs its filter pipeline and hands what it forwards to the router.
StageAfter(stage) ==
    IF stage = "call" THEN IF Len(srv.layers) > 0 THEN "middleware" ELSE "filter"
    ELSE IF stage = "middleware" THEN "filter"
    ELSE "routing"

\* A Filter that is never ready.
Filter_poll_ready_pending == "Pending"

\* <Filter as Service>::poll_ready: Poll::Ready(Ok(())), whatever the state.
Filter_poll_ready == "Ready"

\* poll_ready of one component of the service.
ComponentReady(id) ==
    IF id = Filter.id THEN Filter_poll_ready = "Ready" ELSE id \notin busy

\* The components a request can be handed to: the middleware layers, the
\* steps of the filter pipeline and the router with its resources.
Components(s) ==
    {s.layers[i] : i \in 1..Len(s.layers)}
    \cup {s.filter[i].id : i \in 1..Len(s.filter)}
    \cup {"router"}

\* poll_ready of the composed service: ready when every component is.
ServiceReady(s) == \A c \in Components(s) : ComponentReady(c)

\* The caller polls the service; a service that is not ready reports
\* Pending and nothing changes.
poll_ready ==
    /\ pc = "ready"
    /\ ~polled
    /\ ServiceReady(srv)
    /\ polled' = TRUE
    /\ UNCHANGED <<app, factory, srv, log, built, stacked, busy, pc, req, pos, rstate, resp,
                   trace, history>>

\* A component of the service stops or starts being ready while the
\* service waits to be polled.
set_ready(c, ready) ==
    /\ pc = "ready"
    /\ ~polled
    /\ c \in Components(srv) \ {Filter.id}
    /\ busy' = IF ready THEN busy \ {c} ELSE busy \cup {c}
    /\ busy' # busy
    /\ UNCHANGED <<app, factory, srv, log, built, stacked, polled, pc, req, pos, rstate, resp,
                   trace, history>>

\* Service::call on the constructed service, issued once it reported ready.
call(path, method) ==
    /\ pc = "ready"
    /\ polled
    /\ polled' = FALSE
    /\ req' = [path |-> path, method |-> method, marks |-> <<>>]
    /\ resp' = NoResponse
    /\ trace' = <<>>
    /\ rstate' = "Start"
    /\ pos' = 1
    /\ pc' = StageAfter("call")
    /\ UNCHANGED <<app, factory, srv, log, built, stacked, busy, history>>

\* One middleware layer observes the request and calls the service it
\* wraps, or returns an error of its own without calling it.
middleware_call ==
    /\ pc = "middleware"
    /\ LET seen == Event("middleware", srv.layers[pos], "request")
       IN IF srv.layers[pos] \in Rejecting
          THEN AnswerFrom(Failure("UNAUTHORIZED", srv.layers[pos], req), <<seen>>, pos - 1)
          ELSE /\ trace' = Append(trace, seen)
               /\ IF pos < Len(srv.layers)
                  THEN pos' = pos + 1 /\ pc' = pc
                  ELSE pos' = 1 /\ pc' = StageAfter("middleware")
               /\ resp' = resp
    /\ UNCHANGED <<app, factory, srv, log, built, stacked, polled, busy, req, rstate, history>>

\* One step of the filter pipeline: it forwards a request (Ok) or answers
\* in the only other way its type has, with an error (Err).
filter_call ==
    /\ pc = "filter"
    /\ LET f == srv.filter[pos]
           seen == Event("filter", f.id, "request")
       IN IF f.act = "respond"
          THEN /\ Answer(Failure("FORBIDDEN", f.id, req), <<seen>>)
               /\ UNCHANGED <<req, rstate>>
          ELSE /\ req' = IF f.act = "tag"
                         THEN [req EXCEPT !.marks = Append(@, f.id)] ELSE req
               /\ trace' = Append(trace, seen)
               /\ IF pos < Len(srv.filter)
                  THEN pos' = pos + 1 /\ pc' = pc
                  ELSE pos' = 1 /\ pc' = StageAfter("filter")
               /\ UNCHANGED <<rstate, resp>>
    /\ UNCHANGED <<app, factory, srv, log, built, stacked, polled, busy, history>>

\* The router tries the resource at pos: a match is dispatched to it, a
\* rejection moves on, and past the last resource the default answers.
match_attempt ==
    /\ pc = "routing"
    /\ LET entered == IF pos = 1 THEN <<Event("router", "router", "request")>> ELSE <<>>
       IN IF pos <= Len(srv.router)
          THEN LET res == srv.router[pos]
               IN IF ResourceMatches(res, req, srv.case_insensitive)
                  THEN LET r == ResourceCall(res, req, srv.data, srv.rmap)
                           out == [r EXCEPT !.resource = pos,
                                            !.params = Captured(res.rdef, req.path)]
                       IN /\ rstate' = "Dispatch"
                          /\ Answer(out,
                                    entered \o
                                    (IF out.handled
                                     THEN <<Event("handler", out.by, "request")>>
                                     ELSE <<>>))
                  ELSE /\ rstate' = "MatchAttempt"
                       /\ pos' = pos + 1
                       /\ trace' = trace \o entered
                       /\ UNCHANGED <<pc, resp>>
          ELSE /\ rstate' = IF srv.default = NotFound THEN "NotFound" ELSE "GlobalDefault"
               /\ Answer(Response(srv.default.status, srv.default.id, req), entered)
    /\ UNCHANGED <<app, factory, srv, log, built, stacked, polled, busy, req, history>>

\* One middleware layer observes the response on its way out.
middleware_response ==
    /\ pc = "outbound"
    /\ trace' = Append(trace, Event("middleware", srv.layers[pos], "response"))
    /\ resp' = [resp EXCEPT !.headers = Append(@, srv.layers[pos])]
    /\ IF pos > 1
       THEN pos' = pos - 1 /\ pc' = pc
       ELSE pos' = 0 /\ pc' = "ready"
    /\ UNCHANGED <<app, factory, srv, log, built, stacked, polled, busy, req, rstate, history>>

\* What every specification shares: freezing, construction, one request.
Serve ==
    \/ into_factory
    \/ new_service
    \/ poll_ready
    \/ middleware_call
    \/ filter_call
    \/ match_attempt
    \/ middleware_response

\* ------------------------------------------------------- specifications

Methods == {"GET", "POST"}

\* A configure closure registering a resource and a data entry.
ConfigTest == Config(<<DataEntry("usize", 2)>>, <<ResTestAgain>>, <<>>)

\* Applications built from resources, routes, defaults and the routing flag.
RoutingPaths == {PathTest, PathTestUpper, PathTest2, PathBlah, PathUserBob, PathUserBobUpper}

NextRouting ==
    \/ \E f \in {ResTest, ResTest2, ResUser} : service(f)
    \/ \E r \in {get(HOk), post(HAccepted)} : route(PatTest, r)
    \/ configure(ConfigTest)
    \/ default_service(AppDefault)
    \/ case_insensitive_routing
    \/ wrap(Transform("A"))
    \/ filter(FilterTag)
    \/ \E p \in RoutingPaths, m \in Methods : call(p, m)
    \/ Serve

SpecRouting == Init /\ [][NextRouting]_vars

\* Applications built from middleware, filters and one route.
NextPipeline ==
    \/ \E id \in {"A", "B", "C"} : wrap(Transform(id))
    \/ \E f \in {FilterTag, FilterTag2, FilterDeny} : filter(f)
    \/ route(PatTest, get(HOk))
    \/ \E p \in {PathTest, PathBlah} : call(p, "GET")
    \/ Serve

SpecPipeline == Init /\ [][NextPipeline]_vars

\* Applications built from data, data factories and handlers that extract.
NextData ==
    \/ \E d \in {DataEntry("usize", 1), DataEntry("usize", 2), DataEntry("u32", 1)} :
         data(d.ty, d.val)
    \/ \E f \in {FactoryOk("usize", 3), FactoryOk("u32", 3), FactoryErr("usize")} :
         data_factory(f)
    \/ app_data("Data<usize>", 4)
    \/ configure(ConfigTest)
    \/ \E f \in {ResUsize, ResU32, ResTest} : service(f)
    \/ wrap(Transform("A"))
    \/ \E p \in {PathRoot, PathTest, PathTest2} : call(p, "GET")
    \/ Serve

SpecData == Init /\ [][NextData]_vars

\* One factory from which several workers construct their service.
NextWorkers ==
    \/ \E f \in {FactoryOk("usize", 3), FactoryErr("u32")} : data_factory(f)
    \/ data("usize", 1)
    \/ app_data("usize", 10)
    \/ service(ResUsize)
    \/ wrap(Transform("A"))
    \/ worker_new_service
    \/ \E p \in {PathRoot, PathTest} : call(p, "GET")
    \/ Serve

SpecWorkers == Init /\ [][NextWorkers]_vars

\* A configure closure registering an external resource.
ConfigExternal == Config(<<>>, <<>>, <<ExternalTest2>>)

\* Applications with external resources beside their resources.
NextExternal ==
    \/ \E e \in {Youtube, ExternalTest2} : external_resource(e.name, e.rdef)
    \/ configure(ConfigExternal)
    \/ \E f \in {ResUrl, ResTest2} : service(f)
    \/ default_service(AppDefault)
    \/ wrap(Transform("A"))
    \/ \E p \in {PathTest, PathTest2} : call(p, "GET")
    \/ Serve

SpecExternal == Init /\ [][NextExternal]_vars

\* Transform::new_transform of stacks built from a, b and c in both
\* groupings and both orders, and of stacks with Identity, on one service.
stack_new_transform ==
    /\ ~stacked.done
    /\ stacked' =
         [stacked EXCEPT
            !.done = TRUE,
            !.ab_c = new_transform(Stack(Stack(stacked.a, stacked.b), stacked.c),
                                   stacked.service),
            !.a_bc = new_transform(Stack(stacked.a, Stack(stacked.b, stacked.c)),
                                   stacked.service),
            !.ab = new_transform(Stack(stacked.a, stacked.b), stacked.service),
            !.ba = new_transform(Stack(stacked.b, stacked.a), stacked.service),
            !.id_a = new_transform(Stack(Identity, stacked.a), stacked.service),
            !.a_id = new_transform(Stack(stacked.a, Identity), stacked.service),
            !.a_alone = new_transform(stacked.a, stacked.service),
            !.id_alone = new_transform(Identity, stacked.service)]
    /\ UNCHANGED <<app, factory, srv, log, built, polled, busy, pc, req, pos, rstate,
                   resp, trace, history>>

\* The transforms and the services stacks are tried on.
Transforms == {Identity, Transform("A"), Transform("B"), Transform("C")}
Services == {AppServiceCore, <<"X">>, <<"X", "Y">>}

InitStack ==
    /\ app = AppNew
    /\ factory = NoFactory
    /\ srv = NoService
    /\ log = <<>>
    /\ built = <<>>
    /\ stacked \in {Stacked(a, b, c, S) :
                       a \in Transforms, b \in Transforms, c \in Transforms,
                       S \in Services}
    /\ polled = FALSE
    /\ busy = {}
    /\ pc = "build"
    /\ req = NoRequest
    /\ pos = 0
    /\ rstate = "Start"
    /\ resp = NoResponse
    /\ trace = <<>>
    /\ history = <<>>

NextStack == stack_new_transform

SpecStack == InitStack /\ [][NextStack]_vars

\* Applications whose requests are followed through the routing decision.
NextDecision ==
    \/ \E f \in {ResTest, ResTest2} : service(f)
    \/ route(PatTest, post(HAccepted))
    \/ default_service(AppDefault)
    \/ wrap(Transform("A"))
    \/ filter(FilterDeny)
    \/ \E p \in {PathTest, PathBlah}, m \in Methods : call(p, m)
    \/ Serve

\* A request handed to the service is carried through: the future call
\* returned is polled until it completes.
SpecDecision ==
    /\ Init
    /\ [][NextDecision]_vars
    /\ WF_vars(middleware_call)
    /\ WF_vars(filter_call)
    /\ WF_vars(match_attempt)
    /\ WF_vars(middleware_response)

\* Every builder method, in any order, and the freezing of the App.
NextBuilder ==
    \/ data("usize", 1)
    \/ data_factory(FactoryOk("usize", 3))
    \/ app_data("usize", 10)
    \/ configure(ConfigTest)
    \/ configure(ConfigExternal)
    \/ service(ResTest)
    \/ route(PatTest, get(HOk))
    \/ default_service(AppDefault)
    \/ external_resource(Youtube.name, Youtube.rdef)
    \/ filter(FilterTag)
    \/ \E id \in {"A", "B"} : wrap(Transform(id))
    \/ case_insensitive_routing
    \/ into_factory

SpecBuilder == Init /\ [][NextBuilder]_vars

\* Applications on which default_service is called more than once.
NextDefault ==
    \/ \E f \in {AppDefault, AppDefault2} : default_service(f)
    \/ \E f \in {ResTest, ResTest2} : service(f)
    \/ wrap(Transform("A"))
    \/ \E p \in {PathTest, PathBlah} : call(p, "GET")
    \/ Serve

SpecDefault == Init /\ [][NextDefault]_vars

\* Applications with app_data values and handlers that look them up.
NextExtensions ==
    \/ \E v \in {10, 11} : app_data("usize", v)
    \/ app_data("Data<usize>", 4)
    \/ data("usize", 1)
    \/ \E f \in {ResLookup, ResLookupU32} : service(f)
    \/ wrap(Transform("A"))
    \/ \E p \in {PathRoot, PathTest2} : call(p, "GET")
    \/ Serve

SpecExtensions == Init /\ [][NextExtensions]_vars

\* Applications whose handlers, filters and middleware fail.
NextErrors ==
    \/ \E id \in {"A", "E"} : wrap(Transform(id))
    \/ \E f \in {FilterTag, FilterDeny} : filter(f)
    \/ \E f \in {ResTest, ResUsize} : service(f)
    \/ \E p \in {PathRoot, PathTest} : call(p, "GET")
    \/ Serve

SpecErrors == Init /\ [][NextErrors]_vars

\* Applications whose components are not always ready.
NextReady ==
    \/ wrap(Transform("A"))
    \/ \E f \in {FilterTag, FilterTag2} : filter(f)
    \/ service(ResTest)
    \/ \E c \in {"A", "tag", "tag2", "router"}, ready \in BOOLEAN : set_ready(c, ready)
    \/ \E p \in {PathTest, PathBlah} : call(p, "GET")
    \/ Serve

SpecReady == Init /\ [][NextReady]_vars

\* ------------------------------------------------- what the calls asked

\* The resources registered, in the order of the calls (a configure call
\* stands for the services its closure registered).
RECURSIVE RegisteredServices(_)
RegisteredServices(h) ==
    IF h = <<>> THEN <<>>
    ELSE LET c == Head(h)
         IN (IF c.op = "service" THEN <<c.arg>>
             ELSE IF c.op = "route"
             THEN <<Resource(c.arg.path, c.arg.route.guards,
                             <<to(c.arg.route.handler)>>, NoDefault)>>
             ELSE IF c.op = "configure" THEN c.arg.services
             ELSE <<>>) \o RegisteredServices(Tail(h))

CallsOf(op) == {i \in 1..Len(history) : history[i].op = op}
Last(S) == CHOOSE i \in S : \A j \in S : j <= i
First(S) == CHOOSE i \in S : \A j \in S : i <= j

\* A response has been produced for the request in flight.
Answered == resp # NoResponse

\* The resources whose pattern and guards the request satisfies.
Matching(regs, r, insensitive) ==
    {i \in 1..Len(regs) : ResourceMatches(regs[i], r, insensitive)}

\* ---------------------------------------------------------------- claims

\* C1: a request whose path matches no registered resource is answered by
\* the application's default service when default_service was called, and
\* with 404 Not Found when it was not.
C1_UnmatchedGoesToDefault ==
    LET regs == RegisteredServices(history)
        nomatch == \A i \in 1..Len(regs) :
                     ~PatternMatches(regs[i].rdef, req.path, app.case_insensitive)
    IN (Answered /\ nomatch) =>
         IF CallsOf("default_service") # {}
         THEN LET d == history[Last(CallsOf("default_service"))].arg
              IN resp.by = d.id /\ resp.status = d.status /\ rstate = "GlobalDefault"
         ELSE resp.status = "NOT_FOUND" /\ rstate = "NotFound"

C1_Witness ==
    /\ pc = "ready" /\ resp.by = "app_default" /\ resp.status = "METHOD_NOT_ALLOWED"
    /\ Len(srv.router) > 0
    /\ req.path = PathBlah

\* C2: with a global default registered, a resource that has its own
\* default service and a single GET route answers a GET request with the
\* route's handler and any other method with its own default, never with
\* the global default.
C2_ResourceDefaultBeforeGlobal ==
    LET regs == RegisteredServices(history)
        hit == {i \in 1..Len(regs) : PatternMatches(regs[i].rdef, req.path, app.case_insensitive)}
    IN (Answered /\ CallsOf("default_service") # {} /\ hit # {}) =>
         LET res == regs[First(hit)]
         IN (res.default # NoDefault /\ res.guards = {} /\ Len(res.routes) = 1
             /\ res.routes[1].guards = {"GET"}) =>
              IF req.method = "GET"
              THEN resp.by = res.routes[1].handler.id
                   /\ resp.status = res.routes[1].handler.status
              ELSE resp.by = res.default.id /\ resp.status = res.default.status
                   /\ resp.by # history[Last(CallsOf("default_service"))].arg.id

C2_Witness ==
    /\ pc = "ready" /\ req.path = PathTest2 /\ req.method = "POST"
    /\ resp.by = "resource_default" /\ resp.status = "CREATED"
    /\ srv.default = AppDefault

\* C6: the router holds the resources in the order of the service, route
\* and configure calls and dispatches a request to the first of them whose
\* pattern and guards match; a later match is never preferred.
C6_FirstMatchWins ==
    LET regs == RegisteredServices(history)
        fit == Matching(regs, req, app.case_insensitive)
    IN /\ app.services = regs
       /\ (Answered /\ fit # {}) =>
            /\ rstate = "Dispatch"
            /\ resp.resource = First(fit)
            /\ resp.by \in {regs[First(fit)].routes[k].handler.id :
                              k \in 1..Len(regs[First(fit)].routes)}
                           \cup {regs[First(fit)].default.id, "resource"}
       /\ (Answered /\ fit = {}) => resp.resource = 0

C6_Witness ==
    LET regs == RegisteredServices(history)
    IN /\ pc = "ready" /\ Answered
       /\ CallsOf("configure") # {}
       /\ Cardinality(Matching(regs, req, app.case_insensitive)) >= 2
       /\ resp.resource = 1 /\ resp.by = "ok"
       /\ regs[2] = ResTestAgain

\* Two segments that differ at most in the case of their ASCII letters.
EqIgnoreAsciiCase(a, b) ==
    /\ Len(a) = Len(b)
    /\ \A k \in 1..Len(a) :
         \/ a[k] = b[k]
         \/ \E i \in 1..Len(UpperChars) : {a[k], b[k]} = {UpperChars[i], LowerChars[i]}

\* The request fits the resource when static segments are compared with
\* or without regard to case; a dynamic segment takes any text.
Fits(res, r, anycase) ==
    /\ Len(res.rdef) = Len(r.path)
    /\ \A k \in 1..Len(res.rdef) :
         IF res.rdef[k].kind = "static"
         THEN IF anycase THEN EqIgnoreAsciiCase(res.rdef[k].text, r.path[k])
              ELSE res.rdef[k].text = r.path[k]
         ELSE Len(r.path[k]) > 0
    /\ \A g \in res.guards : g = r.method

\* C7: once case_insensitive_routing was called, a path that differs from
\* a resource's static segments only in ASCII case is routed as the
\* same-case path is; a dynamic segment's value keeps the case of the
\* request; without the call only the exact case matches.
C7_CaseInsensitiveStaticOnly ==
    LET regs == RegisteredServices(history)
        anycase == CallsOf("case_insensitive_routing") # {}
        fit == {i \in 1..Len(regs) : Fits(regs[i], req, anycase)}
    IN Answered =>
         /\ resp.resource = (IF fit = {} THEN 0 ELSE First(fit))
         /\ resp.resource # 0 =>
              /\ DOMAIN resp.params =
                   {k \in 1..Len(req.path) : regs[resp.resource].rdef[k].kind = "dynamic"}
              /\ \A k \in DOMAIN resp.params : resp.params[k] = req.path[k]
         /\ (~anycase /\ req.path = PathTestUpper /\ resp.resource # 0) =>
              regs[resp.resource].rdef # PatTest

C7_Witness ==
    /\ pc = "ready" /\ CallsOf("case_insensitive_routing") # {}
    /\ req.path = PathUserBobUpper
    /\ resp.by = "user" /\ resp.status = "OK"
    /\ resp.params = (2 :> <<"B", "o", "b">>)

\* The arguments of the calls of one builder method, in call order.
RECURSIVE ArgsOf(_, _)
ArgsOf(op, h) ==
    IF h = <<>> THEN <<>>
    ELSE (IF Head(h).op = op THEN <<Head(h).arg>> ELSE <<>>) \o ArgsOf(op, Tail(h))

Reverse(s) == [i \in 1..Len(s) |-> s[Len(s) + 1 - i]]
IsPrefix(s, t) == Len(s) <= Len(t) /\ \A i \in 1..Len(s) : s[i] = t[i]

\* The ids of the events of one kind and direction, in trace order.
RECURSIVE Observed(_, _, _)
Observed(kind, dir, t) ==
    IF t = <<>> THEN <<>>
    ELSE (IF Head(t).kind = kind /\ Head(t).dir = dir THEN <<Head(t).id>> ELSE <<>>)
         \o Observed(kind, dir, Tail(t))

Positions(kind, dir) ==
    {i \in 1..Len(trace) : trace[i].kind = kind /\ trace[i].dir = dir}

WrappedIds == [i \in 1..Len(ArgsOf("wrap", history)) |-> ArgsOf("wrap", history)[i].id]

\* The request is finished: its response left the outermost service.
Finished == pc = "ready" /\ Answered

\* C3: after wrap(M1), ..., wrap(Mn) the service is Mn(...(M1(app))): a
\* request is observed by Mn first and M1 last, its response by M1 first
\* and Mn last.
C3_LastWrappedIsOutermost ==
    /\ srv.made => srv.layers = Reverse(WrappedIds)
    /\ IsPrefix(Observed("middleware", "request", trace), Reverse(WrappedIds))
    /\ IsPrefix(Observed("middleware", "response", trace), WrappedIds)
    /\ \A i \in Positions("middleware", "request"),
          j \in Positions("middleware", "response") : i < j
    /\ Finished =>
         /\ Observed("middleware", "request", trace) = Reverse(WrappedIds)
         /\ Observed("middleware", "response", trace) = WrappedIds
         /\ resp.headers = WrappedIds

C3_Witness ==
    /\ Finished
    /\ WrappedIds = <<"A", "B">>
    /\ Observed("middleware", "request", trace) = <<"B", "A">>
    /\ Observed("middleware", "response", trace) = <<"A", "B">>

\* The filter pipeline the calls asked for: Filter, then each registered
\* step, in the order of the filter calls.
AskedFilters == <<Filter>> \o ArgsOf("filter", history)
AskedFilterIds == [i \in 1..Len(AskedFilters) |-> AskedFilters[i].id]
Responding == {i \in 1..Len(AskedFilters) : AskedFilters[i].act = "respond"}

RECURSIVE RegisteredData(_)
RegisteredData(h) ==
    IF h = <<>> THEN <<>>
    ELSE LET c == Head(h)
         IN (IF c.op = "data" THEN <<c.arg>>
             ELSE IF c.op = "configure" THEN c.arg.data
             ELSE <<>>) \o RegisteredData(Tail(h))

HasData(T) == \E i \in 1..Len(RegisteredData(history)) : RegisteredData(history)[i].ty = T
FactoriesOf(T) == {i \in CallsOf("data_factory") : history[i].arg.ty = T}
HasAppData(K) == \E i \in CallsOf("app_data") : history[i].arg.ty = K

\* The handler the router dispatched the request to, and the type it extracts.
DispatchedHandler == RegisteredServices(history)[resp.resource].routes[1].handler
Extracting ==
    /\ Answered /\ rstate = "Dispatch"
    /\ DispatchedHandler.extract # None

\* C8 as stated: the handler is answered 200 exactly when an entry of type
\* T was registered by data or data_factory.
C8_OkIffRegistered ==
    Extracting =>
        LET T == DispatchedHandler.extract
        IN (resp.status = "OK") <=> (HasData(T) \/ FactoriesOf(T) # {})

\* C8, amended: the handler is answered 200 exactly when the constructed
\* service holds an entry of type T: one registered by data or configure,
\* by a data_factory whose future succeeded, or stored as Data<T> with
\* app_data; otherwise the request, not the registration, fails with 500.
C8_OkIffEntryProduced ==
    Extracting =>
        LET T == DispatchedHandler.extract
            have == \/ HasData(T)
                    \/ \E i \in FactoriesOf(T) : history[i].arg.ok
                    \/ HasAppData(DataOf(T))
        IN IF have
           THEN resp.status = "OK" /\ resp.handled /\ resp.by = DispatchedHandler.id
           ELSE resp.status = "INTERNAL_SERVER_ERROR" /\ ~resp.handled
                /\ resp.by = "missing_app_data"

C8_Witness ==
    /\ Finished /\ req.path = PathRoot
    /\ ArgsOf("data_factory", history) = <<FactoryOk("u32", 3)>>
    /\ RegisteredData(history) = <<>>
    /\ rstate = "Dispatch"
    /\ DispatchedHandler = HUsize
    /\ resp.status = "INTERNAL_SERVER_ERROR"

\* The entries of type T in registration order: those of data and configure
\* and those of the data factories that succeeded.
RECURSIVE EntriesOf(_, _)
EntriesOf(T, h) ==
    IF h = <<>> THEN <<>>
    ELSE LET c == Head(h)
             here == IF c.op = "data" THEN <<c.arg>>
                     ELSE IF c.op = "configure" THEN c.arg.data
                     ELSE IF c.op = "data_factory" /\ c.arg.ok
                     THEN <<DataEntry(c.arg.ty, c.arg.val)>>
                     ELSE <<>>
         IN SelectSeq(here, LAMBDA d : d.ty = T) \o EntriesOf(T, Tail(h))

\* C9: with several entries of one type registered by any mix of data,
\* configure and data_factory, a typed lookup observes the one registered
\* last.
C9_MostRecentEntryWins ==
    (Extracting /\ resp.handled /\ CallsOf("app_data") = {}) =>
        LET es == EntriesOf(DispatchedHandler.extract, history)
        IN Len(es) >= 2 => resp.seen = <<es[Len(es)].val>>

\* C10: a data factory that fails is logged and leaves no entry; the
\* service is constructed all the same, a request for the type fails with
\* the missing-data condition and other requests are served.
C10_FailedFactoryIsAbsent ==
    LET fs == ArgsOf("data_factory", history)
        failed == SelectSeq(fs, LAMBDA f : ~f.ok)
    IN /\ pc \notin {"build", "factory"} =>
            /\ srv.made
            /\ Len(log) = Len(failed)
            /\ \A i \in 1..Len(log) : log[i].level = "error" /\ log[i].ty = failed[i].ty
            /\ \A T \in {"usize", "u32"} :
                 (~HasData(T) /\ ~HasAppData(DataOf(T))
                  /\ \A i \in FactoriesOf(T) : ~history[i].arg.ok)
                 => DataOf(T) \notin DOMAIN srv.data
       /\ pc \in {"build", "factory"} => log = <<>>
       /\ (Extracting /\ ~HasData(DispatchedHandler.extract)
           /\ ~HasAppData(DataOf(DispatchedHandler.extract))
           /\ \A i \in FactoriesOf(DispatchedHandler.extract) : ~history[i].arg.ok)
          => resp.status = "INTERNAL_SERVER_ERROR" /\ resp.by = "missing_app_data"
       /\ (Answered /\ rstate = "Dispatch" /\ DispatchedHandler.extract = None)
          => resp.status = DispatchedHandler.status /\ resp.handled

C10_Witness ==
    /\ Finished /\ req.path = PathRoot
    /\ ArgsOf("data_factory", history) = <<FactoryErr("usize")>>
    /\ RegisteredServices(history) = <<ResUsize, ResTest>>
    /\ Len(log) = 1
    /\ resp.by = "missing_app_data"

\* ------------------------------------------------ workers and factories

\* A request is on its way through the service.
InFlight == pc \in {"middleware", "filter", "routing", "outbound"}

\* C11: every registered data factory is invoked exactly once for each
\* service constructed, during the construction and so before the first
\* request to that service; handling requests invokes none of them again.
C11_FactoriesOncePerConstruction ==
    [][/\ \A w \in 1..Len(built') :
            built'[w].awaited = ArgsOf("data_factory", history')
       /\ srv'.made => Len(built') >= 1 /\ built'[Len(built')].service = srv'
       /\ built' # built =>
            /\ Len(built') = Len(built) + 1
            /\ ~InFlight /\ pc' = "ready"
            /\ req' = req /\ resp' = resp
       /\ (InFlight \/ InFlight') => built' = built]_vars

C11_Witness ==
    /\ Len(built) = 2
    /\ Finished /\ req.path = PathRoot
    /\ ArgsOf("data_factory", history) = <<FactoryOk("usize", 3), FactoryErr("u32")>>
    /\ built[2].awaited = <<FactoryOk("usize", 3), FactoryErr("u32")>>
    /\ resp.seen = <<3>>

\* ---------------------------------------------------- external resources

\* The external resources registered, in the order of the calls.
RECURSIVE RegisteredExternal(_)
RegisteredExternal(h) ==
    IF h = <<>> THEN <<>>
    ELSE LET c == Head(h)
         IN (IF c.op = "external_resource" THEN <<c.arg>>
             ELSE IF c.op = "configure" THEN c.arg.external
             ELSE <<>>) \o RegisteredExternal(Tail(h))

\* The history without the calls that registered external resources.
RECURSIVE WithoutExternal(_)
WithoutExternal(h) ==
    IF h = <<>> THEN <<>>
    ELSE LET c == Head(h)
         IN (IF c.op = "external_resource" THEN <<>>
             ELSE IF c.op = "configure"
             THEN <<[c EXCEPT !.arg = Config(c.arg.data, c.arg.services, <<>>)]>>
             ELSE <<c>>) \o WithoutExternal(Tail(h))

\* C12: an external resource is never considered when a request is
\* matched: the routing outcome is that of the application without the
\* external resources, also for a path that fits an external pattern; the
\* external resources are in the table of reverse URL generation only.
C12_ExternalNeverMatched ==
    LET regs == RegisteredServices(WithoutExternal(history))
        fit == Matching(regs, req, app.case_insensitive)
    IN /\ app.services = regs
       /\ app.external = RegisteredExternal(history)
       /\ srv.made => srv.router = regs /\ srv.rmap = RegisteredExternal(history)
       /\ Answered =>
            IF fit = {}
            THEN /\ resp.resource = 0
                 /\ rstate \in {"NotFound", "GlobalDefault"}
                 /\ resp.by = srv.default.id
                 /\ resp.by = IF CallsOf("default_service") = {}
                              THEN "not_found" ELSE "app_default"
            ELSE /\ resp.resource = First(fit)
                 /\ rstate = "Dispatch"
                 /\ resp.by \in {regs[First(fit)].routes[i].handler.id :
                                    i \in 1..Len(regs[First(fit)].routes)}
                                \cup {regs[First(fit)].default.id}

C12_Witness ==
    /\ Finished /\ req.path = PathTest2
    /\ RegisteredExternal(history) = <<ExternalTest2>>
    /\ RegisteredServices(history) = <<ResUrl>>
    /\ rstate = "NotFound" /\ resp.status = "NOT_FOUND"

\* The URL written out: https://youtube.com/watch/12345
YoutubeUrl12345 == <<"https:", "/", "/", "youtube.com", "/", "watch", "/", "12345">>

\* The handler of the matched resource asked the request for a URL.
AskedUrl ==
    /\ Answered /\ rstate = "Dispatch" /\ resp.handled
    /\ DispatchedHandler.url_for # NoUrlFor

\* C13: url_for with the name of a registered resource returns the pattern
\* with the given values, in order, in the place of its dynamic segments:
\* ("youtube", "https://youtube.com/watch/{video_id}") with ["12345"] gives
\* https://youtube.com/watch/12345; a name never registered gives the
\* resource-not-found error.
C13_UrlForSubstitutesInOrder ==
    AskedUrl =>
        LET ask == DispatchedHandler.url_for
            exts == RegisteredExternal(history)
            named == {i \in 1..Len(exts) : exts[i].name = ask.name}
        IN IF named = {}
           THEN /\ ~resp.url.ok
                /\ resp.url.err = "ResourceNotFound"
           ELSE LET pat == exts[First(named)].rdef
                    nth(i) == Cardinality({j \in 1..i : pat[j].kind = "dynamic"})
                    segs == [i \in 1..Len(pat) |->
                               IF pat[i].kind = "static" THEN pat[i].text
                               ELSE ask.elements[nth(i)]]
                IN /\ resp.url.ok
                   /\ resp.url.url = JoinSegments(segs)
                   /\ (pat = PatYoutube /\ ask.elements = << <<"12345">> >>)
                      => resp.url.url = YoutubeUrl12345

C13_Witness ==
    /\ Finished /\ AskedUrl
    /\ RegisteredExternal(history) = <<Youtube>>
    /\ resp.url = Generated(YoutubeUrl12345)

\* The extensions registered with app_data, the last value of a type kept.
RECURSIVE RegisteredExtensions(_)
RegisteredExtensions(h) ==
    IF h = <<>> THEN NoExtensions
    ELSE LET c == h[Len(h)]
             before == RegisteredExtensions(SubSeq(h, 1, Len(h) - 1))
         IN IF c.op = "app_data" THEN Insert(before, c.arg.ty, c.arg.val) ELSE before

\* C14: every service constructed from the frozen factory is fully
\* populated: the second and every later one holds the resources, external
\* resources, eager data and app_data extensions the first one holds.
C14_EveryConstructionPopulated ==
    \A w \in 1..Len(built) :
        /\ built[w].service.router = RegisteredServices(history)
        /\ built[w].service.rmap = RegisteredExternal(history)
        /\ \A k \in DOMAIN RegisteredExtensions(history) :
               k \in DOMAIN built[w].service.data
        /\ built[w].service = built[1].service

\* --------------------------------------------------------------- errors

\* C15: the service never returns an error value to its caller: what a
\* handler, a filter or a middleware returned as an error and nothing
\* inside recovered has become a response when the request is finished.
C15_NoErrorCrossesBoundary ==
    Finished => resp.channel = "Ok"

\* ------------------------------------------------------------ readiness

\* The components of service s that are not ready when b are busy.
NotReady(s, b) == {c \in Components(s) : c # Filter.id /\ c \in b}

LookedUp ==
    /\ Answered /\ rstate = "Dispatch" /\ resp.handled
    /\ DispatchedHandler.lookup # None

ArgsOfIds(calls) == [i \in 1..Len(calls) |-> calls[i].arg.id]

\* The calls of the history that are not wrap calls, and the wrap calls.
NotWraps(h) == SelectSeq(h, LAMBDA c : c.op # "wrap")
Wraps(h) == SelectSeq(h, LAMBDA c : c.op = "wrap")

\* What an application answers to r, read from its filters and resources
\* alone: who answers and with which status.
Outcome(h, r) ==
    LET regs == RegisteredServices(h)
        filters == ArgsOf("filter", h)
        deny == {i \in 1..Len(filters) : filters[i].act = "respond"}
        fit == {i \in 1..Len(regs) : ResourceMatches(regs[i], r, FALSE)}
    IN IF deny # {} THEN <<filters[First(deny)].id, "FORBIDDEN">>
       ELSE IF fit = {} THEN <<"not_found", "NOT_FOUND">>
       ELSE <<regs[First(fit)].routes[1].handler.id,
              regs[First(fit)].routes[1].handler.status>>

\* C18: where the wrap calls stand among the route and service calls does
\* not change the result: every middleware applies to every request, and
\* the response is the one of the application that makes the same wrap
\* calls after all its other calls.
C18_WrapPositionIrrelevant ==
    Finished =>
        LET moved == NotWraps(history) \o Wraps(history)
        IN /\ resp.headers = ArgsOfIds(Wraps(moved))
           /\ Observed("middleware", "response", trace) = ArgsOfIds(Wraps(moved))
           /\ <<resp.by, resp.status>> = Outcome(NotWraps(moved), [req EXCEPT !.marks = <<>>])

C18_Witness ==
    /\ Finished /\ req.path = PathTest
    /\ Len(history) = 3
    /\ history[1].op = "wrap" /\ history[2].op = "route" /\ history[3].op = "wrap"
    /\ resp.status = "OK"
    /\ resp.headers = <<history[1].arg.id, history[3].arg.id>>

\* ------------------------------------------------------------------ route

\* The route calls made for path p with a route guarded by method m.
RouteCalls(p, m) ==
    {i \in CallsOf("route") : history[i].arg.path = p /\ history[i].arg.route.guards = {m}}

\* The resources registered before call i of the history.
Before(i) == Len(RegisteredServices(SubSeq(history, 1, i - 1)))

\* C19: every route call registers a resource of its own, with the one
\* route and with the route's guards as its guards; so after route(p, get)
\* and route(p, post) a POST to p reaches the post route's handler and a
\* GET to p the get route's.
C19_RoutePerCallResource ==
    /\ Len(app.services) = Len(RegisteredServices(history))
    /\ \A i \in CallsOf("route") :
         LET res == app.services[Before(i) + 1]
             r == history[i].arg.route
         IN /\ res.rdef = history[i].arg.path
            /\ res.guards = r.guards
            /\ Len(res.routes) = 1
            /\ res.routes[1].handler = r.handler
    /\ (Answered /\ RouteCalls(PatTest, "GET") # {} /\ RouteCalls(PatTest, "POST") # {}
        /\ req.path = PathTest
        /\ \A i \in 1..Len(srv.router) :
              srv.router[i].rdef = PatTest => srv.router[i].guards # {})
       => LET c == history[First(RouteCalls(PatTest, req.method))]
          IN /\ resp.by = c.arg.route.handler.id
             /\ resp.status = c.arg.route.handler.status
             /\ resp.resource = Before(First(RouteCalls(PatTest, req.method))) + 1

C19_Witness ==
    /\ Finished /\ req.path = PathTest /\ req.method = "POST"
    /\ Len(history) >= 2
    /\ history[1] = [op |-> "route", arg |-> [path |-> PatTest, route |-> get(HOk)]]
    /\ history[2] = [op |-> "route", arg |-> [path |-> PatTest, route |-> post(HAccepted)]]
    /\ resp.by = "accepted" /\ resp.resource = 2

\* ---------------------------------------------------------------- filters

\* What the first n steps of a pipeline have written on a request that
\* entered it unmarked.
RECURSIVE MarksAfter(_, _)
MarksAfter(steps, n) ==
    IF n = 0 THEN <<>>
    ELSE MarksAfter(steps, n - 1)
         \o (IF steps[n].act = "tag" THEN <<steps[n].id>> ELSE <<>>)

\* C20: the filters run in the order of their registration, after the
\* identity filter: each receives the request the one before it returned,
\* the router receives the request the last one returned, unchanged when
\* no filter is registered, and every forwarding filter has been invoked
\* exactly once when the handler runs.
C20_FiltersInRegistrationOrder ==
    LET ran == Observed("filter", "request", trace)
    IN /\ srv.made => srv.filter = AskedFilters
       /\ IsPrefix(ran, AskedFilterIds)
       /\ pc = "filter" => Len(ran) = pos - 1 /\ req.marks = MarksAfter(AskedFilters, pos - 1)
       /\ Positions("router", "request") # {} =>
            /\ ran = AskedFilterIds
            /\ req.marks = MarksAfter(AskedFilters, Len(AskedFilters))
            /\ ArgsOf("filter", history) = <<>> => req.marks = <<>>
       /\ resp.handled =>
            /\ resp.marks = MarksAfter(AskedFilters, Len(AskedFilters))
            /\ \A k \in 1..Len(AskedFilters) :
                 Cardinality({i \in Positions("filter", "request") :
                                trace[i].id = AskedFilters[k].id})
                 = Cardinality({j \in 1..Len(AskedFilters) :
                                  AskedFilters[j].id = AskedFilters[k].id})
            /\ \A i \in Positions("filter", "request"),
                  j \in Positions("handler", "request") : i < j

C20_Witness ==
    /\ Finished /\ req.path = PathTest
    /\ ArgsOf("filter", history) = <<FilterTag2, FilterTag>>
    /\ resp.handled
    /\ resp.marks = <<"tag2", "tag">>
    /\ Observed("filter", "request", trace) = <<"Filter", "tag2", "tag">>

\* ------------------------------------------------------------- stacking

\* The layer one transform puts around a service: none for Identity.
LayerOf(t) == IF t = Identity THEN <<>> ELSE <<t.id>>

\* Stacking is associative: both groupings of a, b, c give c(b(a(S))).
StackAssociative ==
    stacked.done =>
        /\ stacked.ab_c = stacked.a_bc
        /\ stacked.ab_c = LayerOf(stacked.c) \o LayerOf(stacked.b) \o LayerOf(stacked.a)
                           \o stacked.service

\* Stacking on Identity changes nothing.
StackIdentity ==
    stacked.done =>
        /\ stacked.id_alone = stacked.service
        /\ stacked.id_a = stacked.a_alone
        /\ stacked.a_id = stacked.a_alone

Terminal == {"Dispatch", "GlobalDefault", "NotFound"}

\* One step of the routing decision, read against the resources in the
\* order of their registration: the candidate at pos is rejected and the
\* next one is taken, or it matches and is dispatched to, or there is no
\* candidate left and the decision ends with the default or not found.
DecisionStep ==
    LET regs == RegisteredServices(history)
    IN \/ /\ pos <= Len(regs)
          /\ ~ResourceMatches(regs[pos], req, app.case_insensitive)
          /\ rstate' = "MatchAttempt" /\ pc' = "routing" /\ pos' = pos + 1
          /\ resp' = resp
       \/ /\ pos <= Len(regs)
          /\ ResourceMatches(regs[pos], req, app.case_insensitive)
          /\ rstate' = "Dispatch" /\ pc' # "routing" /\ resp'.resource = pos
       \/ /\ pos > Len(regs)
          /\ rstate' = IF CallsOf("default_service") # {} THEN "GlobalDefault"
                        ELSE "NotFound"
          /\ pc' # "routing" /\ resp'.resource = 0

\* The steps a request takes obey the routing decision.
DecisionSteps ==
    [][/\ pc = "routing" => rstate \notin Terminal /\ DecisionStep
       /\ (pc # "routing" /\ pc' = "routing") => pos' = 1 /\ rstate' = "Start"
       /\ (pc # "routing" /\ rstate' # rstate) => rstate' = "Start" /\ pc = "ready"]_vars

\* C22: the routing decision takes the resources one at a time in the
\* order of their registration, leaves a rejected resource for the next
\* one and never returns to it, and always ends in exactly one of
\* Dispatch (a resource matched), GlobalDefault (none matched, a global
\* default exists) and NotFound (none matched, no global default).
C22_RoutingDecision ==
    /\ DecisionSteps
    /\ (pc = "routing") ~> (pc # "routing" /\ rstate \in Terminal)

C22_Witness ==
    /\ Finished /\ rstate = "GlobalDefault"
    /\ RegisteredServices(history) = <<RouteResource(PatTest, post(HAccepted)), ResTest2>>
    /\ req.path = PathTest /\ req.method = "GET"
    /\ resp.by = "app_default"

\* ---------------------------------------------------------- frame effects

\* The fields of App and the builder methods that write each of them.
Fields == DOMAIN AppNew
Writers(field) ==
    IF field = "middleware" THEN {"wrap"}
    ELSE IF field = "filter" THEN {"filter"}
    ELSE IF field = "data" THEN {"data", "configure"}
    ELSE IF field = "data_factories" THEN {"data_factory"}
    ELSE IF field = "extensions" THEN {"app_data"}
    ELSE IF field = "services" THEN {"service", "route", "configure"}
    ELSE IF field = "default" THEN {"default_service"}
    ELSE IF field = "external" THEN {"external_resource", "configure"}
    ELSE IF field = "case_insensitive" THEN {"case_insensitive_routing"}
    ELSE {}

\* C23: a builder method changes the fields of App that are its own and
\* no other, and into_factory carries every field into the factory as it
\* is: a case-insensitive flag set before later wrap and filter calls is
\* set in the factory.
C23_BuilderFrames ==
    [][/\ history' # history =>
            /\ Len(history') = Len(history) + 1
            /\ \A f \in Fields :
                 app'[f] # app[f] => history'[Len(history')].op \in Writers(f)
       /\ history' = history => app' = app
       /\ factory'.made =>
            /\ factory'.middleware = app'.middleware
            /\ factory'.filter = app'.filter
            /\ factory'.data = app'.data
            /\ factory'.data_factories = app'.data_factories
            /\ factory'.services = app'.services
            /\ factory'.external = app'.external
            /\ factory'.default = app'.default
            /\ factory'.extensions = Some(app'.extensions)
            /\ factory'.case_insensitive
               = (\E i \in 1..Len(history') : history'[i].op = "case_insensitive_routing")]_vars

C23_Witness ==
    /\ factory.made /\ factory.case_insensitive
    /\ Len(history) = 3
    /\ history[1].op = "case_insensitive_routing"
    /\ history[2].op = "wrap" /\ history[3].op = "filter"
    /\ factory.filter = <<Filter, FilterTag>>
    /\ factory.middleware = Stack(Identity, history[2].arg)

\* ------------------------------------------------------- global default

\* The default services the calls registered, in the order of the calls.
Defaults == ArgsOf("default_service", history)

\* C24: the application holds one global default service at most: of
\* several default_service calls the last one replaces those before it,
\* and only its service answers an unmatched request, wherever the
\* resources are registered among the calls.
C24_LastDefaultWins ==
    LET regs == RegisteredServices(history)
        given == IF Defaults = <<>> THEN NoDefault ELSE Defaults[Len(Defaults)]
    IN /\ app.default = given
       /\ factory.made => factory.default = given
       /\ srv.made => srv.default = IF Defaults = <<>> THEN NotFound ELSE given
       /\ (Answered /\ Matching(regs, req, app.case_insensitive) = {}) =>
            /\ resp.by = (IF Defaults = <<>> THEN NotFound ELSE given).id
            /\ resp.status = (IF Defaults = <<>> THEN NotFound ELSE given).status
            /\ \A i \in 1..Len(Defaults) :
                 Defaults[i] # given => resp.by # Defaults[i].id
       /\ (Answered /\ Matching(regs, req, app.case_insensitive) # {}) =>
            \A i \in 1..Len(Defaults) : resp.by # Defaults[i].id

C24_Witness ==
    /\ Finished /\ req.path = PathBlah
    /\ Len(history) = 3
    /\ history[1] = [op |-> "default_service", arg |-> AppDefault]
    /\ history[2] = [op |-> "service", arg |-> ResTest]
    /\ history[3] = [op |-> "default_service", arg |-> AppDefault2]
    /\ resp.by = "app_default2" /\ resp.status = "GONE"
    /\ rstate = "GlobalDefault"

====
